---- MODULE Spec2Model ----
(***************************************************************************)
(* The cache layer of plugin.video.netflix: the memoization decorator      *)
(* cache_output and its identifier derivation (common/cache_utils.py),     *)
(* the Cache facade with its service / IPC dispatch and its pickle codec   *)
(* (common/cache.py), and the cache manager behind it.                     *)
(***************************************************************************)
EXTENDS Integers, Sequences, FiniteSets, TLC

VARIABLES
    profile,     \* g.LOCAL_DB.get_active_profile_guid()
    PY_IS_VER2,  \* g.PY_IS_VER2: the interpreter the add-on runs on
    CACHE_TTL,   \* g.CACHE_TTL: the 'cache_ttl' setting, in seconds
    update_running,  \* the 'update_running' setting, as the text stored
    library,     \* the library updates triggered and the last update_library call
    now,         \* the clock, in seconds
    mem,         \* cache manager: bucket name -> identifier -> entry, in memory
    db,          \* cache manager: the database mirror of the persistent buckets
    boots,       \* cache manager: the restarts of the service so far
    last,        \* the last Cache.get/add/delete/clear call and its outcome
    expect,      \* <<bucket name, identifier>> -> the add last made and not removed
                 \* since by a delete, a clear or a restart
    everAdded,   \* the keys an add was ever issued for
    cfg,         \* the options of the cache_output decorator of the wrapped function
    call,        \* per process: the wrapper call in flight
    done,        \* the wrapper call that completed last
    chain,       \* that call, as long as nothing disturbed the cache after it
    origin,      \* <<bucket name, identifier>> -> the wrapper call that added it
    ninvoked,    \* invocations of the wrapped function so far
    steps,       \* steps taken so far
    input,       \* SpecIdent: the decorator options and call arguments drawn
    result       \* SpecIdent: what _get_identifier gave for input

storeVars == <<mem, db, boots, last, expect, everAdded>>
wrapVars == <<cfg, call, done, chain, origin, ninvoked>>
setVars == <<PY_IS_VER2, CACHE_TTL, update_running, library>>
vars == <<profile, setVars, now, storeVars, wrapVars, steps, input, result>>

(***************************************************************************)
(* Python values: None, str and int, with Python's truth value and str().  *)
(***************************************************************************)
None == [t |-> "none", s |-> "", n |-> 0]
Str(s) == [t |-> "str", s |-> s, n |-> 0]
PyInt(n) == [t |-> "int", s |-> "", n |-> n]

\* bool(v): None, '' and 0 are false
Truthy(v) == (v.t = "str" /\ v.s # "") \/ (v.t = "int" /\ v.n # 0)

\* str(v)
PyStr(v) ==
    CASE v.t = "none" -> "None"
      [] v.t = "str" -> v.s
      [] v.t = "int" -> ToString(v.n)

\* a or b
PyOr(a, b) == IF Truthy(a) THEN a ELSE b

\* kwargs.get(name): kwargs is a function from the supplied names
KwGet(kwargs, name) ==
    IF name.t = "str" /\ name.s \in DOMAIN kwargs THEN kwargs[name.s] ELSE None

(***************************************************************************)
(* Bounds and the sets the inputs are drawn from.                          *)
(***************************************************************************)
MaxArgs == 2

Guids == {"P1", "P2"}
ArgVals == {Str("show1"), Str("mylist"), Str(""), None}
KwVals == {Str("show2"), Str(""), None}
KwNames == {"videoid", "list_type", "start"}

ArgSeqs == UNION {[1..n -> ArgVals] : n \in 0..MaxArgs}
KwMaps == UNION {[S -> KwVals] : S \in SUBSET KwNames}

(***************************************************************************)
(* cache_utils.py: identifier derivation.                                  *)
(***************************************************************************)
\* generate_identifier with the profile prefix left out
generate_identifier_noprefix(partial_identifier) == partial_identifier

generate_identifier(partial_identifier) ==
    profile \o "_" \o partial_identifier

Returned(arg_value, identifier) ==
    [raised |-> "", arg_value |-> arg_value, identifier |-> identifier]
Raised(exc) ==
    [raised |-> exc, arg_value |-> None, identifier |-> ""]

\* identifier += '_' + kwargs.get(...): str + str, anything else is a TypeError
AppendOk(identifier, sec) == identifier.t = "str" /\ sec.t = "str"

\* the part of the identifier the call's arguments give when no fixed
\* identifier is used, as Python values: the keyword's, the positional
\* argument's and the secondary keyword's
KwValue(from_name, kwargs) == KwGet(kwargs, from_name)
SecValue(append_name, kwargs) ==
    IF Truthy(append_name) THEN KwGet(kwargs, append_name) ELSE None

\* _get_identifier that appends the secondary keyword to a fixed identifier too
_get_identifier_fixedappend(fixed_identifier, identify_from_kwarg_name, identify_append_from_kwarg_name, identify_fallback_arg_index, args, kwargs) ==
    LET sec == SecValue(identify_append_from_kwarg_name, kwargs)
        kw == KwValue(identify_from_kwarg_name, kwargs)
        base == IF Truthy(fixed_identifier) THEN fixed_identifier
                ELSE IF ~Truthy(kw) /\ Len(args) > identify_fallback_arg_index
                THEN args[identify_fallback_arg_index + 1] ELSE kw
    IN  Returned(None,
                 generate_identifier(
                     IF Truthy(base) /\ Truthy(sec)
                     THEN PyStr(base) \o "_" \o PyStr(sec) ELSE PyStr(base)))

\* _get_identifier that takes the positional argument before the keyword
_get_identifier_argfirst(fixed_identifier, identify_from_kwarg_name, identify_append_from_kwarg_name, identify_fallback_arg_index, args, kwargs) ==
    LET sec == SecValue(identify_append_from_kwarg_name, kwargs)
        kw == KwValue(identify_from_kwarg_name, kwargs)
        positional == Len(args) > identify_fallback_arg_index
        arg_value == IF positional THEN args[identify_fallback_arg_index + 1]
                     ELSE None
        base == IF Truthy(fixed_identifier) THEN fixed_identifier
                ELSE IF positional THEN arg_value ELSE kw
    IN  Returned(arg_value,
                 generate_identifier(
                     IF ~Truthy(fixed_identifier) /\ Truthy(base) /\ Truthy(sec)
                     THEN PyStr(base) \o "_" \o PyStr(sec) ELSE PyStr(base)))

\* _get_identifier that never appends the secondary keyword
_get_identifier_noappend(fixed_identifier, identify_from_kwarg_name, identify_append_from_kwarg_name, identify_fallback_arg_index, args, kwargs) ==
    LET kw == KwValue(identify_from_kwarg_name, kwargs)
        fallback == ~Truthy(kw) /\ Len(args) > identify_fallback_arg_index
        arg_value == IF fallback THEN args[identify_fallback_arg_index + 1]
                     ELSE None
        base == IF Truthy(fixed_identifier) THEN fixed_identifier
                ELSE IF fallback THEN arg_value ELSE kw
    IN  Returned(IF Truthy(fixed_identifier) THEN None ELSE arg_value,
                 generate_identifier(PyStr(base)))

\* _get_identifier that reads the positional argument only
_get_identifier_argonly(fixed_identifier, identify_from_kwarg_name, identify_append_from_kwarg_name, identify_fallback_arg_index, args, kwargs) ==
    LET positional == Len(args) > identify_fallback_arg_index
        arg_value == IF positional THEN args[identify_fallback_arg_index + 1]
                     ELSE None
        base == IF Truthy(fixed_identifier) THEN fixed_identifier ELSE arg_value
    IN  Returned(arg_value, generate_identifier(PyStr(base)))

_get_identifier(fixed_identifier, identify_from_kwarg_name, identify_append_from_kwarg_name, identify_fallback_arg_index, args, kwargs) ==
    IF Truthy(fixed_identifier)
    THEN Returned(None, generate_identifier(PyStr(fixed_identifier)))
    ELSE
      LET kw == KwGet(kwargs, identify_from_kwarg_name)
          fallback == ~Truthy(kw) /\ Len(args) > 0
      IN
      IF fallback /\ identify_fallback_arg_index >= Len(args)
      THEN Raised("IndexError")
      ELSE
        LET arg_value == IF fallback THEN args[identify_fallback_arg_index + 1]
                         ELSE None
            identifier == IF fallback THEN arg_value ELSE kw
            append == /\ Truthy(identifier)
                      /\ Truthy(identify_append_from_kwarg_name)
                      /\ Truthy(KwGet(kwargs, identify_append_from_kwarg_name))
            sec == KwGet(kwargs, identify_append_from_kwarg_name)
        IN
        IF append /\ ~AppendOk(identifier, sec)
        THEN Raised("TypeError")
        ELSE Returned(arg_value,
                      generate_identifier(
                          PyStr(IF append
                                THEN Str(identifier.s \o "_" \o sec.s)
                                ELSE identifier)))

(***************************************************************************)
(* cache_utils.py: the buckets. Two of the eight are modelled, one of each *)
(* policy: cache_common (memory only, default ttl CACHE_TTL) and           *)
(* cache_metadata (persistent, default ttl CACHE_METADATA_TTL).            *)
(***************************************************************************)
Hour == 60 * 60

\* g.CACHE_METADATA_TTL: the 'cache_metadata_ttl' setting, one value of it
CACHE_METADATA_TTL == 4 * Hour

CACHE_COMMON ==
    [name |-> "cache_common", is_persistent |-> FALSE, default_ttl |-> CACHE_TTL]
\* cache_metadata without the persistent option
CACHE_METADATA_memory ==
    [name |-> "cache_metadata", is_persistent |-> FALSE,
     default_ttl |-> CACHE_METADATA_TTL]

CACHE_METADATA ==
    [name |-> "cache_metadata", is_persistent |-> TRUE,
     default_ttl |-> CACHE_METADATA_TTL]

BUCKETS == {CACHE_COMMON, CACHE_METADATA}
BUCKET_NAMES == {"cache_common", "cache_metadata"}
PersistentNames == {"cache_metadata"}

CACHE_MYLIST_TTL_MAX == 7200

\* the processes of the add-on: the service owns the cache manager
Procs == {"service", "frontend"}
IS_SERVICE(c) == c = "service"

\* functions with a finite domain, as Python dicts
Put(f, k, v) == [x \in (DOMAIN f) \cup {k} |-> IF x = k THEN v ELSE f[x]]
Drop(f, k) == [x \in (DOMAIN f) \ {k} |-> f[x]]

(***************************************************************************)
(* cache.py: the codec. A payload is the value under the layers of         *)
(* encoding applied to it, outermost first.                                *)
(***************************************************************************)
NoData == [layers |-> <<>>, v |-> None]
Corrupt == [layers |-> <<"corrupt">>, v |-> None]

pickle_dumps(value) == [layers |-> <<"pickle">>, v |-> value]
\* pickle.loads: [raised, v]
pickle_loads(data) ==
    IF data.layers = <<"pickle">>
    THEN [raised |-> "", v |-> data.v]
    ELSE [raised |-> "UnpicklingError", v |-> None]

standard_b64encode(data) == [data EXCEPT !.layers = <<"b64">> \o @]
\* what is not base64 text does not decode to the bytes it came from
standard_b64decode(data) ==
    IF data.layers # <<>> /\ Head(data.layers) = "b64"
    THEN [data EXCEPT !.layers = Tail(@)]
    ELSE Corrupt

\* _serialize_data without the python 2 base64 layer
_serialize_data_nob64(value) == pickle_dumps(value)

_serialize_data(value) ==
    IF PY_IS_VER2
    THEN standard_b64encode(pickle_dumps(value))
    ELSE pickle_dumps(value)

_deserialize_data(value) ==
    IF PY_IS_VER2
    THEN pickle_loads(standard_b64decode(value))
    ELSE pickle_loads(value)

(***************************************************************************)
(* The cache manager (g.CACHE_MANAGEMENT, cache_management.py) and the IPC *)
(* call to it (make_http_call_cache). An outcome is what the call raised   *)
(* or returned, the manager's state after it, the backends that executed   *)
(* it, the parameters the manager's method received, the IPC request sent  *)
(* and what the manager's method signalled.                                *)
(***************************************************************************)
Out(raised, ret, m, d) ==
    [raised |-> raised, ret |-> ret, mem |-> m, db |-> d,
     via |-> <<>>, delivered |-> <<>>, sent |-> <<>>, signal |-> raised]

NoBuckets == [given |-> FALSE, list |-> {}]
BucketList(bs) == [given |-> TRUE, list |-> bs]

Expired(entry) == entry.expires < now

Store_get(params) ==
    LET b == params.bucket.name
        id == params.identifier
    IN  IF id \in DOMAIN mem[b] /\ ~Expired(mem[b][id])
        THEN Out("", mem[b][id].data, mem, db)
        ELSE Out("CacheMiss", NoData, mem, db)

\* explicit expires, else explicit ttl, else the bucket's default_ttl
EffectiveExpires(bucket, ttl, expires) ==
    IF expires # None THEN expires.n
    ELSE IF ttl # None THEN now + ttl.n
    ELSE now + bucket.default_ttl

Store_add(params) ==
    LET b == params.bucket.name
        entry == [data |-> params.data,
                  expires |-> EffectiveExpires(params.bucket, params.ttl,
                                               params.expires)]
    IN  Out("", NoData,
            [mem EXCEPT ![b] = Put(@, params.identifier, entry)],
            IF params.bucket.is_persistent
            THEN [db EXCEPT ![b] = Put(@, params.identifier, entry)]
            ELSE db)

Store_delete(params) ==
    LET b == params.bucket.name
    IN  Out("", NoData,
            [mem EXCEPT ![b] = Drop(@, params.identifier)],
            IF params.bucket.is_persistent
            THEN [db EXCEPT ![b] = Drop(@, params.identifier)]
            ELSE db)

Store_clear(params) ==
    LET names == IF params.buckets.given
                 THEN {b.name : b \in params.buckets.list}
                 ELSE BUCKET_NAMES
    IN  Out("", NoData,
            [b \in BUCKET_NAMES |-> IF b \in names THEN <<>> ELSE mem[b]],
            [b \in PersistentNames |->
                IF params.clear_database /\ b \in names THEN <<>> ELSE db[b]])

\* on the start of the service the persistent buckets are filled from the
\* database, without the entries that have expired; the others start empty
Store_reload ==
    [b \in BUCKET_NAMES |->
        IF b \in PersistentNames
        THEN [id \in {x \in DOMAIN db[b] : ~Expired(db[b][x])} |-> db[b][id]]
        ELSE <<>>]

\* getattr(g.CACHE_MANAGEMENT, callname)(**params)
CacheManagement(callname, params) ==
    LET r == CASE callname = "get" -> Store_get(params)
               [] callname = "add" -> Store_add(params)
               [] callname = "delete" -> Store_delete(params)
               [] callname = "clear" -> Store_clear(params)
    IN  [r EXCEPT !.delivered = <<params>>]

\* the service end of the IPC call puts the payload back into the parameters,
\* runs the method and answers with its result or the exception it raised
make_http_call_cache(callname, params, data) ==
    LET p == IF "data" \in DOMAIN params THEN [params EXCEPT !.data = data]
             ELSE params
    IN  [CacheManagement(callname, p) EXCEPT
            !.via = <<"ipc">>,
            !.sent = <<[callname |-> callname, params |-> params, data |-> data]>>]

(***************************************************************************)
(* cache.py: the facade.                                                   *)
(***************************************************************************)
\* _make_call that always takes the IPC path
_make_call_ipc(c, callname, params, data) ==
    make_http_call_cache(callname, params, data)

\* _make_call that, in the service, leaves the payload out of the parameters
_make_call_noinject(c, callname, params, data) ==
    IF IS_SERVICE(c)
    THEN [CacheManagement(callname, params) EXCEPT !.via = <<"direct">>]
    ELSE make_http_call_cache(callname, params, data)

_make_call(c, callname, params, data) ==
    IF IS_SERVICE(c)
    THEN LET p == IF "data" \in DOMAIN params
                  THEN [params EXCEPT !.data = data]
                  ELSE params
         IN  [CacheManagement(callname, p) EXCEPT !.via = <<"direct">>]
    ELSE make_http_call_cache(callname, params, data)

\* Cache.get that answers None for a miss
Cache_get_swallow(c, bucket, identifier) ==
    LET call_args == [bucket |-> bucket, identifier |-> PyStr(identifier)]
        r == _make_call(c, "get", call_args, NoData)
    IN  IF r.raised # "" THEN [r EXCEPT !.raised = "", !.ret = None]
        ELSE [r EXCEPT !.ret = _deserialize_data(r.ret).v]

Cache_get(c, bucket, identifier) ==
    LET call_args == [bucket |-> bucket, identifier |-> PyStr(identifier)]
        r == _make_call(c, "get", call_args, NoData)
        v == _deserialize_data(r.ret)
    IN  IF r.raised # "" THEN [r EXCEPT !.ret = None]
        ELSE [r EXCEPT !.raised = v.raised, !.ret = v.v]

\* Cache.add that leaves the ttl out of the call
Cache_add_nottl(c, bucket, identifier, data, ttl, expires) ==
    LET call_args == [bucket |-> bucket, identifier |-> PyStr(identifier),
                      data |-> NoData, ttl |-> None, expires |-> expires]
    IN  [_make_call(c, "add", call_args, _serialize_data(data))
            EXCEPT !.ret = None]

\* Cache.add that leaves the expires timestamp out of the call
Cache_add_noexpires(c, bucket, identifier, data, ttl, expires) ==
    LET call_args == [bucket |-> bucket, identifier |-> PyStr(identifier),
                      data |-> NoData, ttl |-> ttl, expires |-> None]
    IN  [_make_call(c, "add", call_args, _serialize_data(data))
            EXCEPT !.ret = None]

\* Cache.add that passes the value on as it is, not serialized
Cache_add_unserialized(c, bucket, identifier, data, ttl, expires) ==
    LET call_args == [bucket |-> bucket, identifier |-> PyStr(identifier),
                      data |-> NoData, ttl |-> ttl, expires |-> expires]
    IN  [_make_call(c, "add", call_args, [layers |-> <<>>, v |-> data])
            EXCEPT !.ret = None]

Cache_add(c, bucket, identifier, data, ttl, expires) ==
    LET call_args == [bucket |-> bucket, identifier |-> PyStr(identifier),
                      data |-> NoData, ttl |-> ttl, expires |-> expires]
    IN  [_make_call(c, "add", call_args, _serialize_data(data))
            EXCEPT !.ret = None]

\* Cache.delete that makes the 'get' call of Cache.get
Cache_delete_get(c, bucket, identifier) ==
    LET call_args == [bucket |-> bucket, identifier |-> PyStr(identifier)]
    IN  [_make_call(c, "get", call_args, NoData) EXCEPT !.ret = None]

Cache_delete(c, bucket, identifier) ==
    LET call_args == [bucket |-> bucket, identifier |-> PyStr(identifier)]
    IN  [_make_call(c, "delete", call_args, NoData) EXCEPT !.ret = None]

\* Cache.clear that leaves the list of buckets out of the call
Cache_clear_all(c, buckets, clear_database) ==
    LET call_args == [buckets |-> NoBuckets, clear_database |-> clear_database]
    IN  [_make_call(c, "clear", call_args, NoData) EXCEPT !.ret = None]

Cache_clear(c, buckets, clear_database) ==
    LET call_args == [buckets |-> buckets, clear_database |-> clear_database]
    IN  [_make_call(c, "clear", call_args, NoData) EXCEPT !.ret = None]

(***************************************************************************)
(* Calls of the facade by the add-on's code, and what they leave behind.   *)
(***************************************************************************)
NoCall ==
    [op |-> "none", c |-> "", args |-> <<>>, raised |-> "", ret |-> None,
     via |-> <<>>, delivered |-> <<>>, sent |-> <<>>, signal |-> ""]

\* the record of a facade call: its arguments and its outcome
LastOf(op, c, args, r) ==
    [op |-> op, c |-> c, args |-> <<args>>, raised |-> r.raised, ret |-> r.ret,
     via |-> r.via, delivered |-> r.delivered, sent |-> r.sent,
     signal |-> r.signal]

MaxSteps == 4
MaxOps == 3

\* every step of a specification is counted against its bound
Budget(n) ==
    /\ steps < n
    /\ steps' = steps + 1

Key(bucket, identifier) == <<bucket.name, identifier>>

\* the entry an add finds under its key, if any
Over(bucket, identifier) ==
    IF identifier \in DOMAIN mem[bucket.name]
    THEN <<mem[bucket.name][identifier]>>
    ELSE <<>>

Tick ==
    /\ now' = now + Hour
    /\ UNCHANGED <<profile, setVars, storeVars, wrapVars, input, result>>

\* an add, delete or clear by other code ends the chain of undisturbed
\* wrapper calls
Unchained == [chain EXCEPT !.valid = FALSE]

FacadeGet(c, bucket, identifier) ==
    LET r == Cache_get(c, bucket, Str(identifier))
    IN  /\ mem' = r.mem
        /\ db' = r.db
        /\ last' = LastOf("get", c,
                          [bucket |-> bucket, identifier |-> identifier], r)
        /\ UNCHANGED <<boots, expect, everAdded>>
        /\ UNCHANGED <<profile, setVars, now, wrapVars, input, result>>

FacadeAdd(c, bucket, identifier, data, ttl, expires) ==
    LET r == Cache_add(c, bucket, Str(identifier), data, ttl, expires)
    IN  /\ mem' = r.mem
        /\ db' = r.db
        /\ last' = LastOf("add", c,
                          [bucket |-> bucket, identifier |-> identifier,
                           data |-> data, ttl |-> ttl, expires |-> expires], r)
        /\ expect' = Put(expect, Key(bucket, identifier),
                         [data |-> data, at |-> now, ttl |-> ttl,
                          expires |-> expires,
                          over |-> Over(bucket, identifier)])
        /\ everAdded' = everAdded \cup {Key(bucket, identifier)}
        /\ chain' = Unchained
        /\ UNCHANGED <<boots, cfg, call, done, origin, ninvoked>>
        /\ UNCHANGED <<profile, setVars, now, input, result>>

FacadeDelete(c, bucket, identifier) ==
    LET r == Cache_delete(c, bucket, Str(identifier))
    IN  /\ mem' = r.mem
        /\ db' = r.db
        /\ last' = LastOf("delete", c,
                          [bucket |-> bucket, identifier |-> identifier], r)
        /\ expect' = Drop(expect, Key(bucket, identifier))
        /\ chain' = Unchained
        /\ UNCHANGED <<boots, everAdded, cfg, call, done, origin, ninvoked>>
        /\ UNCHANGED <<profile, setVars, now, input, result>>

FacadeClear(c, buckets, clear_database) ==
    LET r == Cache_clear(c, buckets, clear_database)
        cleared == IF buckets.given THEN {b.name : b \in buckets.list}
                   ELSE BUCKET_NAMES
    IN  /\ mem' = r.mem
        /\ db' = r.db
        /\ last' = LastOf("clear", c,
                          [buckets |-> buckets,
                           clear_database |-> clear_database], r)
        /\ expect' = [k \in {x \in DOMAIN expect : x[1] \notin cleared}
                        |-> expect[k]]
        /\ chain' = Unchained
        /\ UNCHANGED <<boots, everAdded, cfg, call, done, origin, ninvoked>>
        /\ UNCHANGED <<profile, setVars, now, input, result>>

\* the service is stopped and started again: what is in memory is lost and
\* the cache manager starts from the database
ServiceRestart ==
    /\ mem' = Store_reload
    /\ boots' = boots + 1
    /\ expect' = [k \in {x \in DOMAIN expect : x[2] \in DOMAIN mem'[x[1]]}
                    |-> expect[k]]
    /\ chain' = Unchained
    /\ UNCHANGED <<db, last, everAdded, cfg, call, done, origin, ninvoked>>
    /\ UNCHANGED <<profile, setVars, now, input, result>>

(***************************************************************************)
(* cache_utils.py: cache_output. A call of the wrapped function runs in    *)
(* one of the add-on's processes, in two steps: the wrapper up to the      *)
(* cache lookup (CallBegin), then, unless the lookup hit, the wrapped      *)
(* function and the add of its output (CallFinish). Other processes run    *)
(* between the two.                                                        *)
(***************************************************************************)
Min(a, b) == IF a <= b THEN a ELSE b

NoAdd == [bucket |-> "", identifier |-> "", ttl |-> None]
NoOrigin == [args |-> <<>>, kwargs |-> <<>>, prof |-> "", addProf |-> ""]
NoChain ==
    [valid |-> FALSE, args |-> <<>>, kwargs |-> <<>>, prof |-> "",
     ret |-> None, raised |-> "", adds |-> 0, at |-> 0, live |-> FALSE]
Idle ==
    [pc |-> "idle", args |-> <<>>, kwargs |-> <<>>, prof |-> "", at |-> 0,
     arg_value |-> None, identifier |-> "", ttl_override |-> None,
     gets |-> 0, after |-> NoChain]
NoDone ==
    [c |-> "", args |-> <<>>, kwargs |-> <<>>, prof |-> "", endProf |-> "",
     beginAt |-> 0,
     identifier |-> "", ttl_override |-> None, gets |-> 0, hit |-> FALSE,
     hitOrigin |-> NoOrigin, invoked |-> 0, adds |-> 0, add |-> NoAdd,
     ret |-> None, raised |-> "", raisedBy |-> "", after |-> NoChain]

\* the record of a completed call, from the call in flight
DoneOf(c, k, hit, hitOrigin, invoked, adds, add, ret, raised, raisedBy) ==
    [c |-> c, args |-> k.args, kwargs |-> k.kwargs, prof |-> k.prof,
     endProf |-> profile, beginAt |-> k.at, identifier |-> k.identifier,
     ttl_override |-> k.ttl_override, gets |-> k.gets, hit |-> hit,
     hitOrigin |-> hitOrigin, invoked |-> invoked, adds |-> adds, add |-> add,
     ret |-> ret, raised |-> raised, raisedBy |-> raisedBy, after |-> k.after]

\* live: whether the cache holds an unexpired entry under the call's key when
\* the call ends
ChainOf(d) ==
    [valid |-> TRUE, args |-> d.args, kwargs |-> d.kwargs, prof |-> d.prof,
     ret |-> d.ret, raised |-> d.raised, adds |-> d.adds, at |-> now,
     live |-> \/ d.adds = 1
              \/ /\ d.identifier \in DOMAIN mem[cfg.bucket.name]
                 /\ ~Expired(mem[cfg.bucket.name][d.identifier])]

\* wrapper, lines 60-69: the identifier and the ttl override
wrapper_ttl_override(arg_value) ==
    IF cfg.ttl = None /\ arg_value = Str("mylist")
    THEN PyInt(Min(CACHE_TTL, CACHE_MYLIST_TTL_MAX))
    ELSE None

\* wrapper, lines 60-73
CallBegin(c, args, kwargs) ==
    /\ call[c].pc = "idle"
    /\ LET id == _get_identifier(cfg.fixed_identifier,
                                 cfg.identify_from_kwarg_name,
                                 cfg.identify_append_from_kwarg_name,
                                 cfg.identify_fallback_arg_index, args, kwargs)
           k == [pc |-> "idle", args |-> args, kwargs |-> kwargs,
                 prof |-> profile, at |-> now, arg_value |-> id.arg_value,
                 identifier |-> id.identifier,
                 ttl_override |-> wrapper_ttl_override(id.arg_value),
                 gets |-> 0, after |-> chain]
           r == Cache_get(c, cfg.bucket, Str(id.identifier))
           key == Key(cfg.bucket, id.identifier)
       IN
       IF id.raised # ""
       THEN \* an exception of _get_identifier leaves the wrapper
            /\ done' = DoneOf(c, k, FALSE, NoOrigin, 0, 0, NoAdd, None,
                              id.raised, "wrapper")
            /\ chain' = ChainOf(done')
            /\ UNCHANGED <<call, storeVars>>
       ELSE IF id.identifier = ""
       THEN \* do not cache if identifier couldn't be determined
            /\ call' = [call EXCEPT ![c] = [k EXCEPT !.pc = "direct"]]
            /\ UNCHANGED <<done, chain, storeVars>>
       ELSE /\ mem' = r.mem
            /\ db' = r.db
            /\ last' = LastOf("get", c,
                              [bucket |-> cfg.bucket,
                               identifier |-> id.identifier], r)
            /\ UNCHANGED <<boots, expect, everAdded>>
            /\ IF r.raised = "CacheMiss"
               THEN /\ call' = [call EXCEPT ![c] =
                                   [k EXCEPT !.pc = "miss", !.gets = 1]]
                    /\ UNCHANGED <<done, chain>>
               ELSE /\ done' = DoneOf(c, [k EXCEPT !.gets = 1],
                                      r.raised = "",
                                      IF key \in DOMAIN origin THEN origin[key]
                                      ELSE NoOrigin,
                                      0, 0, NoAdd, r.ret, r.raised,
                                      IF r.raised = "" THEN "" ELSE "cache")
                    /\ chain' = ChainOf(done')
                    /\ UNCHANGED call
    /\ UNCHANGED <<cfg, origin, ninvoked>>
    /\ UNCHANGED <<profile, setVars, now, input, result>>

\* the wrapped function: its n-th invocation returns a value of its own,
\* or raises
FuncOutput(n) == Str("out" \o ToString(n))

\* the outcome of lines 74-77: what was added, the cache call's outcome, and
\* what leaves the wrapper
Excepted(added, bucket, identifier, data, ttl, r, ret, raised) ==
    [invoked |-> 1, added |-> added, bucket |-> bucket,
     identifier |-> identifier, data |-> data, ttl |-> ttl, r |-> r,
     ret |-> ret, raised |-> raised]

\* lines 74-77 with the add issued to cache_common whatever the bucket option
wrapper_except_commonbucket(c, k, raises, n) ==
    LET output == FuncOutput(n)
        ttl == PyOr(cfg.ttl, k.ttl_override)
    IN  IF raises
        THEN Excepted(FALSE, cfg.bucket, k.identifier, None, None,
                      Out("", None, mem, db), None, "FuncError")
        ELSE Excepted(TRUE, CACHE_COMMON, k.identifier, output, ttl,
                      Cache_add(c, CACHE_COMMON, Str(k.identifier), output,
                                ttl, None),
                      output, "")

\* lines 74-77 with the add issued in a finally clause: also when the
\* function raised, with no output
wrapper_except_addonraise(c, k, raises, n) ==
    LET output == IF raises THEN None ELSE FuncOutput(n)
        ttl == PyOr(cfg.ttl, k.ttl_override)
    IN  Excepted(TRUE, cfg.bucket, k.identifier, output, ttl,
                 Cache_add(c, cfg.bucket, Str(k.identifier), output, ttl, None),
                 output, IF raises THEN "FuncError" ELSE "")

\* wrapper, lines 74-77: after a miss the function is invoked (for the n-th
\* time) and, unless it raises, its output is added and returned
wrapper_except(c, k, raises, n) ==
    LET output == FuncOutput(n)
        ttl == PyOr(cfg.ttl, k.ttl_override)
    IN  IF raises
        THEN Excepted(FALSE, cfg.bucket, k.identifier, None, None,
                      Out("", None, mem, db), None, "FuncError")
        ELSE Excepted(TRUE, cfg.bucket, k.identifier, output, ttl,
                      Cache_add(c, cfg.bucket, Str(k.identifier), output, ttl,
                                None),
                      output, "")

\* wrapper, line 72 and lines 74-77
CallFinish(c, raises) ==
    /\ call[c].pc \in {"direct", "miss"}
    /\ call' = [call EXCEPT ![c] = Idle]
    /\ ninvoked' = ninvoked + 1
    /\ LET k == call[c]
           w == wrapper_except(c, k, raises, ninvoked')
           key == Key(w.bucket, w.identifier)
       IN
       IF k.pc = "direct"
       THEN /\ done' = IF raises
                       THEN DoneOf(c, k, FALSE, NoOrigin, 1, 0, NoAdd, None,
                                   "FuncError", "func")
                       ELSE DoneOf(c, k, FALSE, NoOrigin, 1, 0, NoAdd,
                                   FuncOutput(ninvoked'), "", "")
            /\ UNCHANGED <<storeVars, origin>>
       ELSE /\ done' = DoneOf(c, k, FALSE, NoOrigin, w.invoked,
                              IF w.added THEN 1 ELSE 0,
                              IF w.added
                              THEN [bucket |-> w.bucket.name,
                                    identifier |-> w.identifier, ttl |-> w.ttl]
                              ELSE NoAdd,
                              w.ret, w.raised,
                              IF w.raised # "" THEN "func" ELSE "")
            /\ IF w.added
               THEN /\ mem' = w.r.mem
                    /\ db' = w.r.db
                    /\ last' = LastOf("add", c,
                                      [bucket |-> w.bucket,
                                       identifier |-> w.identifier,
                                       data |-> w.data, ttl |-> w.ttl,
                                       expires |-> None], w.r)
                    /\ expect' = Put(expect, key,
                                     [data |-> w.data, at |-> now,
                                      ttl |-> w.ttl, expires |-> None,
                                      over |-> Over(w.bucket, w.identifier)])
                    /\ everAdded' = everAdded \cup {key}
                    /\ origin' = Put(origin, key,
                                     [args |-> k.args, kwargs |-> k.kwargs,
                                      prof |-> k.prof, addProf |-> profile])
                    /\ UNCHANGED boots
               ELSE UNCHANGED <<storeVars, origin>>
    /\ chain' = ChainOf(done')
    /\ UNCHANGED cfg
    /\ UNCHANGED <<profile, setVars, now, input, result>>

\* another profile is made the active one
SwitchProfile(guid) ==
    /\ guid # profile
    /\ profile' = guid
    /\ chain' = Unchained
    /\ UNCHANGED <<cfg, call, done, origin, ninvoked>>
    /\ UNCHANGED <<setVars, now, storeVars, input, result>>

(***************************************************************************)
(* kodi/library.py: the gate of the library update. A setting holds text:  *)
(* nothing, the word 'false', or a time written as '%Y-%m-%d %H:%M', which *)
(* keeps the minute and drops the seconds.                                 *)
(***************************************************************************)
NoText == [text |-> "", minute |-> 0]
FalseText == [text |-> "false", minute |-> 0]
\* datetime.strftime(t, '%Y-%m-%d %H:%M')
strftime(t) == [text |-> "time", minute |-> t \div 60]

\* common.strp(value, '%Y-%m-%d %H:%M'): the outcomes, each the exception
\* raised or the time parsed. For text that is not a time in this format the
\* outcome depends on common.strp itself: the ValueError of strptime, or, if
\* it parses safely, a default time (the epoch, time 0).
strp(value) ==
    IF value.text = "time"
    THEN {[raised |-> "", time |-> value.minute * 60]}
    ELSE {[raised |-> "ValueError", time |-> 0], [raised |-> "", time |-> 0]}

\* _update_running(), with the outcome o of strp: what it raises or returns
\* and the setting it leaves
_update_running(o) ==
    IF update_running.text = ""
    THEN [raised |-> "", ret |-> FALSE, setting |-> update_running]
    ELSE IF o.raised # ""
    THEN [raised |-> o.raised, ret |-> FALSE, setting |-> update_running]
    ELSE IF o.time + 6 * Hour <= now
    THEN [raised |-> "", ret |-> FALSE, setting |-> FalseText]
    ELSE [raised |-> "", ret |-> TRUE, setting |-> update_running]

NoUpdateCall ==
    [called |-> FALSE, before |-> NoText, after |-> NoText, at |-> 0,
     raised |-> "", triggered |-> FALSE]

InitLibrary ==
    /\ update_running = NoText
    /\ library = [triggers |-> 0, pending |-> FALSE, last |-> NoUpdateCall]

\* update_library()
update_library ==
    /\ \E o \in strp(update_running) :
          LET r == _update_running(o)
              trigger == r.raised = "" /\ ~r.ret
          IN  /\ update_running' = r.setting
              /\ library' =
                    [triggers |-> library.triggers + (IF trigger THEN 1 ELSE 0),
                     pending |-> library.pending \/ trigger,
                     last |-> [called |-> TRUE, before |-> update_running,
                               after |-> r.setting, at |-> now,
                               raised |-> r.raised,
                               triggered |-> trigger]]
    /\ UNCHANGED <<PY_IS_VER2, CACHE_TTL>>
    /\ UNCHANGED <<profile, now, storeVars, wrapVars, input, result>>

\* the export the update triggered starts and records its start time
ExportStarts ==
    /\ library.pending
    /\ update_running' = strftime(now)
    /\ library' = [library EXCEPT !.pending = FALSE]
    /\ UNCHANGED <<PY_IS_VER2, CACHE_TTL>>
    /\ UNCHANGED <<profile, now, storeVars, wrapVars, input, result>>

(***************************************************************************)
(* SpecIdent: _get_identifier as a pure function of the decorator options, *)
(* the call's arguments and the active profile.                            *)
(***************************************************************************)
Pending == Raised("pending")

IdentInputs ==
    [fixed_identifier : {None, Str("root_lists")},
     identify_from_kwarg_name : {Str("videoid"), Str("list_type")},
     identify_append_from_kwarg_name : {None, Str("start")},
     identify_fallback_arg_index : {0, 1},
     args : ArgSeqs,
     kwargs : KwMaps]

\* cache_output(bucket, ...) with identify_from_kwarg_name left at 'videoid'
Options(bucket, fixed_identifier, identify_append_from_kwarg_name, identify_fallback_arg_index, ttl) ==
    [bucket |-> bucket, fixed_identifier |-> fixed_identifier,
     identify_from_kwarg_name |-> Str("videoid"),
     identify_append_from_kwarg_name |-> identify_append_from_kwarg_name,
     identify_fallback_arg_index |-> identify_fallback_arg_index,
     ttl |-> ttl]

InitStore ==
    /\ now = 0
    /\ mem = [b \in BUCKET_NAMES |-> <<>>]
    /\ db = [b \in PersistentNames |-> <<>>]
    /\ boots = 0
    /\ last = NoCall
    /\ expect = <<>>
    /\ everAdded = {}
    /\ steps = 0

InitWrap ==
    /\ call = [c \in Procs |-> Idle]
    /\ done = NoDone
    /\ chain = NoChain
    /\ origin = <<>>
    /\ ninvoked = 0

InitIdent ==
    /\ profile \in Guids
    /\ PY_IS_VER2 = FALSE
    /\ CACHE_TTL = Hour
    /\ InitLibrary
    /\ InitStore
    /\ cfg = Options(CACHE_COMMON, None, None, 0, None)
    /\ InitWrap
    /\ input \in IdentInputs
    /\ result = Pending

Derive ==
    /\ result = Pending
    /\ result' = _get_identifier(input.fixed_identifier,
                                 input.identify_from_kwarg_name,
                                 input.identify_append_from_kwarg_name,
                                 input.identify_fallback_arg_index,
                                 input.args, input.kwargs)
    /\ UNCHANGED <<profile, setVars, now, storeVars, wrapVars, input>>

NextIdent == Budget(1) /\ Derive

SpecIdent == InitIdent /\ [][NextIdent]_vars

(***************************************************************************)
(* Claims about the identifier derivation, under SpecIdent.                *)
(***************************************************************************)
Derived == result # Pending
InKw == KwValue(input.identify_from_kwarg_name, input.kwargs)
InSec == SecValue(input.identify_append_from_kwarg_name, input.kwargs)
InSecPresent ==
    /\ input.identify_append_from_kwarg_name # None
    /\ input.identify_append_from_kwarg_name.s \in DOMAIN input.kwargs
InPositional == Len(input.args) > input.identify_fallback_arg_index
InArg == input.args[input.identify_fallback_arg_index + 1]

\* C5: with a fixed_identifier configured, the identifier is
\* <active profile guid>_<fixed_identifier> whatever the positional arguments,
\* the keyword arguments and the other options are.
C5_FixedIdentifierVerbatim ==
    (Derived /\ input.fixed_identifier # None)
        => result = Returned(None,
                             profile \o "_" \o input.fixed_identifier.s)

\* a fixed identifier, with a positional argument, the identifying keyword and
\* the secondary keyword all supplied and the secondary keyword configured
C5_Witness ==
    /\ Derived
    /\ input.fixed_identifier # None
    /\ Truthy(InKw)
    /\ Truthy(InSec)
    /\ InPositional /\ Truthy(InArg)
    /\ input.identify_fallback_arg_index = 1

InBase == IF ~Truthy(InKw) /\ InPositional THEN InArg ELSE InKw

\* the identifier of the same call with the secondary keyword set to sec
WithSec(sec) ==
    _get_identifier(input.fixed_identifier, input.identify_from_kwarg_name,
                    input.identify_append_from_kwarg_name,
                    input.identify_fallback_arg_index, input.args,
                    Put(input.kwargs, "start", sec))

\* C7 as stated: without a fixed identifier, a configured secondary keyword
\* that is present in the call is appended in its string form; otherwise
\* nothing is appended.
C7_SecondaryPresentAppended ==
    (Derived /\ input.fixed_identifier = None /\ result.raised = "")
        => result.identifier =
               profile \o "_" \o PyStr(InBase)
               \o (IF InSecPresent THEN "_" \o PyStr(InSec) ELSE "")

\* C7, amended: without a fixed identifier, a configured secondary keyword
\* whose value in the call is a non-empty string is appended to a non-empty
\* base value, giving <guid>_<base>_<secondary>; when the secondary keyword is
\* not configured, absent, None or empty, or the base value is, the
\* identifier is <guid>_<string form of the base value>. Two calls that differ
\* only in a non-empty secondary value appended get different identifiers.
C7_SecondaryTruthyAppended ==
    (Derived /\ input.fixed_identifier = None /\ result.raised = "")
        => /\ result.identifier =
                  profile \o "_" \o PyStr(InBase)
                  \o (IF Truthy(InBase) /\ Truthy(InSec) THEN "_" \o InSec.s
                      ELSE "")
           /\ (Truthy(InBase) /\ Truthy(InSec))
                => \A sec \in {Str("s1"), Str("s2")} :
                      sec # InSec
                          => WithSec(sec).identifier # result.identifier

\* a non-empty secondary value is appended to a non-empty base value
C7_Witness ==
    /\ Derived
    /\ input.fixed_identifier = None
    /\ Truthy(InBase) /\ Truthy(InSec)
    /\ result.identifier =
           profile \o "_" \o InBase.s \o "_" \o InSec.s
    /\ WithSec(Str("s2")).identifier # result.identifier

(***************************************************************************)
(* Spec: calls of a wrapped function from both processes, with profile     *)
(* switches, the clock, and deletes and clears by other code.              *)
(***************************************************************************)
WrapperOptions ==
    {Options(CACHE_COMMON, None, None, 0, None),
     Options(CACHE_METADATA, None, None, 0, PyInt(Hour)),
     Options(CACHE_COMMON, Str("root_lists"), None, 0, None),
     Options(CACHE_COMMON, None, Str("start"), 0, None),
     Options(CACHE_COMMON, None, None, 1, None)}

\* the calls made: f(), f('show1'), f(videoid='show1'), f('mylist'), ...
CallInputs ==
    {[args |-> <<>>, kwargs |-> <<>>],
     [args |-> <<Str("show1")>>, kwargs |-> <<>>],
     [args |-> <<>>, kwargs |-> [videoid |-> Str("show1")]],
     [args |-> <<Str("mylist")>>, kwargs |-> <<>>],
     [args |-> <<>>, kwargs |-> [videoid |-> Str("mylist")]],
     [args |-> <<Str("show1")>>, kwargs |-> [start |-> Str("s1")]],
     [args |-> <<Str("x"), Str("show1")>>, kwargs |-> <<>>]}

Init ==
    /\ profile = "P1"
    /\ PY_IS_VER2 = FALSE
    /\ CACHE_TTL \in {Hour, 3 * Hour}
    /\ InitLibrary
    /\ InitStore
    /\ cfg \in WrapperOptions
    /\ InitWrap
    /\ input = [fixed_identifier |-> None]
    /\ result = Pending

Next ==
    \/ \E c \in Procs, i \in CallInputs :
          Budget(MaxSteps) /\ CallBegin(c, i.args, i.kwargs)
    \/ \E c \in Procs, raises \in BOOLEAN :
          Budget(MaxSteps) /\ CallFinish(c, raises)
    \/ \E guid \in Guids : Budget(MaxSteps) /\ SwitchProfile(guid)
    \/ Budget(MaxSteps) /\ Tick
    \/ \E b \in BUCKETS : \E id \in DOMAIN mem[b.name] :
          Budget(MaxSteps) /\ FacadeDelete("frontend", b, id)
    \/ Budget(MaxSteps) /\ FacadeClear("service", NoBuckets, TRUE)

Spec == Init /\ [][Next]_vars

(***************************************************************************)
(* Claims about the wrapper, under Spec.                                   *)
(***************************************************************************)
DefaultOptions ==
    /\ cfg.fixed_identifier = None
    /\ cfg.identify_from_kwarg_name = Str("videoid")
    /\ cfg.identify_append_from_kwarg_name = None
    /\ cfg.identify_fallback_arg_index = 0
    /\ cfg.ttl = None

Completed == done.c # ""

\* the videoid a call of f(videoid) passes, by keyword or by position
VidOf(k) ==
    IF "videoid" \in DOMAIN k.kwargs THEN k.kwargs.videoid
    ELSE IF k.args # <<>> THEN k.args[1]
    ELSE None
\* the call passes a videoid and nothing else
SingleVideoid(k) ==
    \/ Len(k.args) = 1 /\ DOMAIN k.kwargs = {}
    \/ k.args = <<>> /\ DOMAIN k.kwargs = {"videoid"}

\* C1: with default options, a call with no derivable identifier (no
\* fixed_identifier, no 'videoid' keyword, no positional argument) runs the
\* wrapped function, does no cache get and no cache add, and raises nothing
\* of its own.
C1_NoIdentifierSkipsCache ==
    (/\ Completed
     /\ DefaultOptions
     /\ done.args = <<>>
     /\ "videoid" \notin DOMAIN done.kwargs)
        => /\ done.invoked = 1
           /\ done.gets = 0
           /\ done.adds = 0
           /\ done.raisedBy \notin {"wrapper", "cache"}

\* C2: for f(videoid) with default options, a call that follows a call with
\* the same videoid, with no profile switch, delete, clear or expiry in
\* between, does not invoke the function and returns what the first call
\* returned; a call that hits hits an entry added for the same videoid, and
\* a call that does not hit invokes the function once.
C2_SecondCallIsCached ==
    (Completed /\ DefaultOptions /\ SingleVideoid(done))
        => /\ (/\ done.after.valid
               /\ SingleVideoid(done.after)
               /\ VidOf(done.after) = VidOf(done)
               /\ done.after.prof = done.prof
               /\ done.after.raised = ""
               /\ \/ done.beginAt = done.after.at
                  \/ /\ done.after.adds = 1
                     /\ done.beginAt - done.after.at
                            <= Min(CACHE_TTL, CACHE_MYLIST_TTL_MAX))
                => /\ done.hit
                   /\ done.invoked = 0
                   /\ done.raised = ""
                   /\ done.ret = done.after.ret
           /\ done.hit => VidOf(done.hitOrigin) = VidOf(done)
           /\ ~done.hit => done.invoked = 1

\* a call is answered from the entry the call before it added an hour earlier
C2_Witness ==
    /\ Completed /\ DefaultOptions /\ SingleVideoid(done)
    /\ done.after.valid
    /\ done.after.adds = 1
    /\ VidOf(done.after) = VidOf(done)
    /\ done.after.kwargs # done.kwargs
    /\ done.beginAt > done.after.at
    /\ done.hit
    /\ done.ret = done.after.ret

RawIdentifierArg(k) ==
    LET kw == KwGet(k.kwargs, cfg.identify_from_kwarg_name)
    IN  IF ~Truthy(kw) /\ Len(k.args) > cfg.identify_fallback_arg_index
        THEN k.args[cfg.identify_fallback_arg_index + 1]
        ELSE kw

\* C4: with no ttl configured and the identifier derived from the argument
\* value 'mylist', by keyword or by position, the add after a miss is issued
\* with ttl = min(CACHE_TTL, 7200); with a ttl configured, with that ttl.
C4_MylistTtlCapped ==
    (Completed /\ done.adds = 1)
        => /\ (/\ cfg.ttl = None
               /\ cfg.fixed_identifier = None
               /\ RawIdentifierArg(done) = Str("mylist"))
                => done.add.ttl = PyInt(Min(CACHE_TTL, CACHE_MYLIST_TTL_MAX))
           /\ cfg.ttl # None => done.add.ttl = cfg.ttl

(***************************************************************************)
(* SpecFacade: the facade called directly by the add-on's code in both     *)
(* processes, on both interpreters, with the clock.                        *)
(***************************************************************************)
FacadeIds == {"k1", "k2"}
\* the n-th add stores a value of its own
AddValue(n) == Str("v" \o ToString(n))
\* ttl and expires of an add: neither, a ttl above or below the bucket's
\* default, or a ttl and an earlier expires
AddExpiry ==
    {[ttl |-> None, expires |-> None],
     [ttl |-> PyInt(2 * Hour), expires |-> None],
     [ttl |-> PyInt(Hour \div 2), expires |-> None],
     [ttl |-> PyInt(2 * Hour), expires |-> PyInt(Hour)]}

\* the buckets argument of a clear: left out, or a list of one bucket
ClearLists ==
    {NoBuckets, BucketList({CACHE_COMMON}), BucketList({CACHE_METADATA})}

InitFacade ==
    /\ profile = "P1"
    /\ PY_IS_VER2 \in BOOLEAN
    /\ CACHE_TTL = Hour
    /\ InitLibrary
    /\ InitStore
    /\ cfg = Options(CACHE_COMMON, None, None, 0, None)
    /\ InitWrap
    /\ input = [fixed_identifier |-> None]
    /\ result = Pending

NextFacade ==
    \/ \E c \in Procs, b \in BUCKETS, id \in FacadeIds :
          Budget(MaxOps) /\ FacadeGet(c, b, id)
    \/ \E c \in Procs, b \in BUCKETS, id \in FacadeIds, e \in AddExpiry :
          Budget(MaxOps)
          /\ FacadeAdd(c, b, id, AddValue(steps + 1), e.ttl, e.expires)
    \/ \E c \in Procs, b \in BUCKETS, id \in FacadeIds :
          Budget(MaxOps) /\ FacadeDelete(c, b, id)
    \/ \E c \in Procs, bs \in ClearLists,
          clear_database \in BOOLEAN :
          Budget(MaxOps) /\ FacadeClear(c, bs, clear_database)
    \/ Budget(MaxOps) /\ Tick
    \/ Budget(MaxOps) /\ ServiceRestart

SpecFacade == InitFacade /\ [][NextFacade]_vars

(***************************************************************************)
(* Claims about the facade, under SpecFacade.                              *)
(***************************************************************************)
\* the parameter mapping Cache.get/add/delete/clear builds for a call
CallArgsOf(l) ==
    LET a == l.args[1]
    IN  CASE l.op \in {"get", "delete"} ->
                [bucket |-> a.bucket, identifier |-> a.identifier]
          [] l.op = "add" ->
                [bucket |-> a.bucket, identifier |-> a.identifier,
                 data |-> NoData, ttl |-> a.ttl, expires |-> a.expires]
          [] l.op = "clear" ->
                [buckets |-> a.buckets, clear_database |-> a.clear_database]
\* the payload that goes with them
PayloadOf(l) ==
    IF l.op = "add" THEN _serialize_data(l.args[1].data) ELSE NoData

\* C8: a facade call is executed by exactly one backend: in the service
\* process directly by the cache manager, which gets the serialized payload
\* of an add as its 'data' parameter; in any other process by the IPC call,
\* which is given the method name, the parameter mapping and, apart from it,
\* the serialized payload.
C8_OneBackend ==
    last.op # "none"
        => /\ Len(last.via) = 1
           /\ Len(last.delivered) = 1
           /\ IF IS_SERVICE(last.c)
              THEN /\ last.via = <<"direct">>
                   /\ last.sent = <<>>
                   /\ last.delivered[1] =
                          IF last.op = "add"
                          THEN [CallArgsOf(last) EXCEPT !.data = PayloadOf(last)]
                          ELSE CallArgsOf(last)
              ELSE /\ last.via = <<"ipc">>
                   /\ last.sent = <<[callname |-> last.op,
                                     params |-> CallArgsOf(last),
                                     data |-> PayloadOf(last)]>>

\* an add was made from the service process
C8_Witness ==
    /\ last.op = "add"
    /\ IS_SERVICE(last.c)
    /\ last.via = <<"direct">>
    /\ last.delivered[1].data = PayloadOf(last)
    /\ PY_IS_VER2

\* C9: in both processes, a get for which the cache manager signals
\* CacheMiss raises CacheMiss and returns no value.
C9_MissIsRaised ==
    (last.op = "get" /\ last.signal = "CacheMiss")
        => /\ last.raised = "CacheMiss"
           /\ last.ret = None

\* a get from the frontend process missed an entry that had been added
C9_Witness ==
    /\ last.op = "get"
    /\ last.signal = "CacheMiss"
    /\ ~IS_SERVICE(last.c)
    /\ Key(last.args[1].bucket, last.args[1].identifier) \in everAdded

\* C10: a get of a key never added raises CacheMiss; a get of a key added
\* and not deleted or cleared since finds its entry and, unless the entry
\* has expired, returns the value last added under that bucket and
\* identifier, from either process.
C10_MissThenHit ==
    \A c \in Procs, b \in BUCKETS, id \in FacadeIds :
        LET key == Key(b, id)
            g == Cache_get(c, b, Str(id))
        IN  /\ key \notin everAdded => g.raised = "CacheMiss"
            /\ key \in DOMAIN expect
                  => /\ id \in DOMAIN mem[b.name]
                     /\ ~Expired(mem[b.name][id])
                           => /\ g.raised = ""
                              /\ g.ret = expect[key].data

\* one identifier holds different unexpired values in the two buckets, and a
\* third key was never added
C10_Witness ==
    /\ PY_IS_VER2
    /\ \E id \in FacadeIds :
          /\ Key(CACHE_COMMON, id) \in DOMAIN expect
          /\ Key(CACHE_METADATA, id) \in DOMAIN expect
          /\ expect[Key(CACHE_COMMON, id)].data
                 # expect[Key(CACHE_METADATA, id)].data
          /\ ~Expired(mem["cache_common"][id])
          /\ ~Expired(mem["cache_metadata"][id])
          /\ Cache_get("frontend", CACHE_COMMON, Str(id)).ret
                 = expect[Key(CACHE_COMMON, id)].data
    /\ \E id \in FacadeIds : Key(CACHE_COMMON, id) \notin everAdded

(***************************************************************************)
(* Claims about expiry, overwriting, restart, clear and delete, under      *)
(* SpecFacade.                                                             *)
(***************************************************************************)
\* the expiry time of the add e to bucket b, from what the add was given
ExpiryOf(b, e) ==
    IF e.expires # None THEN e.expires.n
    ELSE IF e.ttl # None THEN e.at + e.ttl.n
    ELSE e.at + b.default_ttl

Entry(b, id) == mem[b.name][id]
Held(b, id) == id \in DOMAIN mem[b.name]

\* C11: an entry added with a ttl (and not removed since) is returned by get,
\* from either process, at every time before write time + ttl, and at every
\* time after it get raises CacheMiss; a get never returns the value of an
\* entry whose expiry time is in the past.
C11_Expiry ==
    \A c \in Procs, b \in BUCKETS, id \in FacadeIds :
        LET key == Key(b, id)
            g == Cache_get(c, b, Str(id))
        IN  /\ (/\ key \in DOMAIN expect
                /\ expect[key].ttl # None
                /\ expect[key].expires = None)
                  => /\ now < expect[key].at + expect[key].ttl.n
                        => /\ g.raised = ""
                           /\ g.ret = expect[key].data
                     /\ now > expect[key].at + expect[key].ttl.n
                        => /\ g.raised = "CacheMiss"
                           /\ g.ret = None
            /\ g.raised = ""
                  => /\ Held(b, id)
                     /\ Entry(b, id).expires >= now

\* of two entries added with a ttl, one is past its expiry and a get of it
\* misses, the other is before its expiry and a get returns it
C11_Witness ==
    \E b \in BUCKETS, id1 \in FacadeIds, id2 \in FacadeIds :
        /\ Key(b, id1) \in DOMAIN expect
        /\ Key(b, id2) \in DOMAIN expect
        /\ expect[Key(b, id1)].ttl # None
        /\ expect[Key(b, id1)].expires = None
        /\ expect[Key(b, id2)].ttl # None
        /\ expect[Key(b, id2)].expires = None
        /\ now > expect[Key(b, id1)].at + expect[Key(b, id1)].ttl.n
        /\ now < expect[Key(b, id2)].at + expect[Key(b, id2)].ttl.n
        /\ Cache_get("frontend", b, Str(id1)).raised = "CacheMiss"
        /\ Cache_get("frontend", b, Str(id2)).ret = expect[Key(b, id2)].data

\* C12: the entry of an add (not removed since) expires at the expires
\* timestamp the add was given, also when it was given a ttl as well;
\* without one, at write time + the ttl it was given; without either, at
\* write time + the bucket's default_ttl. An entry added with a ttl and an
\* earlier expires is a CacheMiss once the time is past that expires.
C12_ExpiryPrecedence ==
    \A b \in BUCKETS, id \in FacadeIds :
        LET key == Key(b, id)
            e == expect[key]
        IN  key \in DOMAIN expect
              => /\ Held(b, id)
                 /\ e.expires # None
                       => /\ Entry(b, id).expires = e.expires.n
                          /\ now > e.expires.n
                                => \A c \in Procs :
                                      Cache_get(c, b, Str(id)).raised
                                          = "CacheMiss"
                 /\ (e.expires = None /\ e.ttl # None)
                       => Entry(b, id).expires = e.at + e.ttl.n
                 /\ (e.expires = None /\ e.ttl = None)
                       => Entry(b, id).expires = e.at + b.default_ttl

\* an entry added with a ttl and an earlier expires is a miss past the
\* expires, at a time the ttl alone would have kept it
C12_Witness ==
    \E b \in BUCKETS, id \in FacadeIds :
        /\ Key(b, id) \in DOMAIN expect
        /\ expect[Key(b, id)].expires # None
        /\ expect[Key(b, id)].ttl # None
        /\ now > expect[Key(b, id)].expires.n
        /\ now <= expect[Key(b, id)].at + expect[Key(b, id)].ttl.n
        /\ Entry(b, id).expires = expect[Key(b, id)].expires.n
        /\ Cache_get("service", b, Str(id)).raised = "CacheMiss"

\* C13: after an add, whether or not it found an entry under its bucket and
\* identifier, the entry under them is the one of this add, value and expiry
\* both, in memory and (persistent bucket) in the database, and a get from
\* either process returns this add's value unless it has expired.
C13_LastWriteWins ==
    \A b \in BUCKETS, id \in FacadeIds :
        LET key == Key(b, id)
            e == expect[key]
        IN  key \in DOMAIN expect
              => /\ Held(b, id)
                 /\ Entry(b, id) = [data |-> _serialize_data(e.data),
                                    expires |-> ExpiryOf(b, e)]
                 /\ b.is_persistent => /\ id \in DOMAIN db[b.name]
                                       /\ db[b.name][id] = Entry(b, id)
                 /\ now <= ExpiryOf(b, e)
                       => \A c \in Procs :
                             /\ Cache_get(c, b, Str(id)).raised = ""
                             /\ Cache_get(c, b, Str(id)).ret = e.data

\* a second add replaced an entry of another value and another expiry in the
\* persistent bucket, and a get returns the second value
C13_Witness ==
    \E id \in FacadeIds :
        LET key == Key(CACHE_METADATA, id)
        IN  /\ key \in DOMAIN expect
            /\ expect[key].over # <<>>
            /\ expect[key].over[1].data # Entry(CACHE_METADATA, id).data
            /\ expect[key].over[1].expires > Entry(CACHE_METADATA, id).expires
            /\ Cache_get("frontend", CACHE_METADATA, Str(id)).ret
                   = expect[key].data
            /\ PY_IS_VER2

\* what a get of the key gives, from either process
Gets(b, id) == {Cache_get(c, b, Str(id)) : c \in Procs}

\* C14: over a restart of the service, the entry of an add to a persistent
\* bucket (not removed since) that has not expired is in memory again, as it
\* is in the database, and a get returns its value; an entry of the database
\* that has expired at the restart is not put in memory; every get in a
\* bucket that is not persistent is a CacheMiss after the restart.
C14_PersistenceAcrossRestart ==
    [][boots' # boots =>
        \A b \in BUCKETS, id \in FacadeIds :
            LET key == Key(b, id)
            IN  IF b.name \in PersistentNames
                THEN /\ (key \in DOMAIN expect /\ now <= ExpiryOf(b, expect[key]))
                           => /\ id \in DOMAIN mem'[b.name]
                              /\ mem'[b.name][id] = db[b.name][id]
                              /\ \A g \in Gets(b, id)' :
                                    /\ g.raised = ""
                                    /\ g.ret = expect[key].data
                     /\ (id \in DOMAIN db[b.name] /\ db[b.name][id].expires < now)
                           => /\ id \notin DOMAIN mem'[b.name]
                              /\ \A g \in Gets(b, id)' : g.raised = "CacheMiss"
                     /\ id \in DOMAIN mem'[b.name] => id \in DOMAIN db[b.name]
                ELSE /\ mem'[b.name] = <<>>
                     /\ \A g \in Gets(b, id)' : g.raised = "CacheMiss"
    ]_vars

\* the service has restarted after an add to each of the two buckets, with
\* no time passed: the persistent one's entry is returned, the other's is a
\* miss
C14_Witness ==
    \E id \in FacadeIds :
        /\ boots = 1
        /\ steps = 3
        /\ Key(CACHE_COMMON, id) \in everAdded
        /\ Key(CACHE_METADATA, id) \in DOMAIN expect
        /\ expect[Key(CACHE_METADATA, id)].data \in {AddValue(1), AddValue(2)}
        /\ Cache_get("frontend", CACHE_METADATA, Str(id)).ret
               = expect[Key(CACHE_METADATA, id)].data
        /\ Cache_get("frontend", CACHE_COMMON, Str(id)).raised = "CacheMiss"

\* a step of SpecFacade that is a call of the facade: neither the clock nor
\* a restart; the call is the one last' records
FacadeStep == now' = now /\ boots' = boots

\* the names of the buckets a clear with this buckets argument is for
ClearedBy(buckets) ==
    IF buckets.given THEN {b.name : b \in buckets.list} ELSE BUCKET_NAMES

\* C15: a clear, from either process, raises nothing, leaves the buckets it
\* is for empty in memory and every other bucket's entries as they were;
\* with no list of buckets it is for all of them. The database entries of a
\* persistent bucket are removed when the clear is for that bucket and
\* clear_database is true, and are as they were otherwise.
C15_ClearSemantics ==
    [][(FacadeStep /\ last'.op = "clear") =>
        LET a == last'.args[1]
            cleared == ClearedBy(a.buckets)
        IN  /\ last'.raised = ""
            /\ ~a.buckets.given => cleared = BUCKET_NAMES
            /\ \A b \in BUCKET_NAMES :
                  mem'[b] = IF b \in cleared THEN <<>> ELSE mem[b]
            /\ \A b \in PersistentNames :
                  db'[b] = IF b \in cleared /\ a.clear_database THEN <<>>
                           ELSE db[b]
    ]_vars

\* a clear of the persistent bucket alone, with clear_database false, has
\* emptied it in memory, left its database entries and left the other
\* bucket's entry
C15_Witness ==
    /\ last.op = "clear"
    /\ last.args[1].buckets = BucketList({CACHE_METADATA})
    /\ ~last.args[1].clear_database
    /\ boots = 0
    /\ mem["cache_metadata"] = <<>>
    /\ db["cache_metadata"] # <<>>
    /\ mem["cache_common"] # <<>>

\* the map m without the key id, everything else as in m
Without(m, id, after) ==
    /\ DOMAIN after = DOMAIN m \ {id}
    /\ \A x \in DOMAIN after : after[x] = m[x]

\* C16: a delete, from either process, raises nothing; it removes the entry
\* under its bucket and identifier from memory and, in a persistent bucket,
\* from the database, and nothing else: with no entry under them it changes
\* nothing. After it a get of the key is a CacheMiss and a reload from the
\* database does not bring the entry back.
C16_Delete ==
    [][(FacadeStep /\ last'.op = "delete") =>
        \A b \in BUCKETS, id \in FacadeIds :
          last'.args[1] = [bucket |-> b, identifier |-> id] =>
            /\ last'.raised = ""
            /\ Without(mem[b.name], id, mem'[b.name])
            /\ \A n \in BUCKET_NAMES \ {b.name} : mem'[n] = mem[n]
            /\ \A n \in PersistentNames :
                  IF n = b.name THEN Without(db[n], id, db'[n])
                  ELSE db'[n] = db[n]
            /\ (/\ id \notin DOMAIN mem[b.name]
                /\ b.name \in PersistentNames => id \notin DOMAIN db[b.name])
                  => mem' = mem /\ db' = db
            /\ \A g \in Gets(b, id)' : g.raised = "CacheMiss"
            /\ id \notin DOMAIN Store_reload'[b.name]
    ]_vars

\* after two adds to the persistent bucket one of the keys was deleted: it is
\* gone from memory and the database, the other is where it was
C16_Witness ==
    \E id \in FacadeIds, other \in FacadeIds :
        /\ last.op = "delete"
        /\ last.args[1].bucket = CACHE_METADATA
        /\ last.args[1].identifier = id
        /\ steps = 3
        /\ boots = 0
        /\ everAdded = {Key(CACHE_METADATA, id), Key(CACHE_METADATA, other)}
        /\ other # id
        /\ id \notin DOMAIN mem["cache_metadata"]
        /\ id \notin DOMAIN db["cache_metadata"]
        /\ other \in DOMAIN mem["cache_metadata"]
        /\ other \in DOMAIN db["cache_metadata"]

(***************************************************************************)
(* Claims about wrapper calls running in the two processes at once, under  *)
(* Spec.                                                                   *)
(***************************************************************************)
BucketOf(name) == CHOOSE b \in BUCKETS : b.name = name

C18_ShortArgsSkipCache ==
    (/\ Completed
     /\ cfg.fixed_identifier = None
     /\ cfg.identify_from_kwarg_name.s \notin DOMAIN done.kwargs
     /\ Len(done.args) > 0
     /\ Len(done.args) < cfg.identify_fallback_arg_index + 1)
        => /\ done.invoked = 1
           /\ done.gets = 0
           /\ done.adds = 0
           /\ done.raisedBy # "wrapper"

\* C19: a call of the wrapped function invokes the function at most once:
\* not at all when the cache get returned, which it does only for a key that
\* was added, and once when the get missed or no get was made (unless the
\* identifier derivation or the cache raised an error); at most one add is
\* made, only after a get that missed, and to the bucket and under the
\* identifier of that get.
C19_InvokedAtMostOnce ==
    Completed
        => /\ done.invoked \in {0, 1}
           /\ done.adds \in {0, 1}
           /\ done.hit
                 => /\ done.gets = 1
                    /\ done.invoked = 0
                    /\ done.adds = 0
                    /\ <<cfg.bucket.name, done.identifier>> \in everAdded
           /\ (~done.hit /\ done.raisedBy \notin {"wrapper", "cache"})
                 => done.invoked = 1
           /\ done.adds = 1
                 => /\ done.gets = 1
                    /\ ~done.hit
                    /\ done.add.bucket = cfg.bucket.name
                    /\ done.add.identifier = done.identifier

\* in the persistent bucket, a call was answered from the cache after the
\* call before it had missed, invoked the function and added its output
C19_Witness ==
    /\ Completed
    /\ cfg.bucket = CACHE_METADATA
    /\ done.hit
    /\ done.invoked = 0
    /\ done.after.valid
    /\ done.after.adds = 1
    /\ ninvoked = 1
    /\ done.ret = FuncOutput(1)
    /\ done.identifier \in DOMAIN db["cache_metadata"]

\* the step that ends a call whose get had missed
EndsMissedCall ==
    \E c \in Procs : call[c].pc = "miss" /\ call'[c].pc = "idle"

\* a call that follows, with nothing in between, the same call under the
\* same profile that ended with the function's exception and no live entry
\* under its key
AfterFailedCall ==
    /\ Completed
    /\ done.raisedBy # "wrapper"
    /\ done.after.valid
    /\ done.after.raised = "FuncError"
    /\ ~done.after.live
    /\ done.after.args = done.args
    /\ done.after.kwargs = done.kwargs
    /\ done.after.prof = done.prof

\* C20: when the get of a call missed and the wrapped function raises, the
\* call ends with that exception, having invoked the function once and made
\* no cache call since the get: memory, database and the record of adds are
\* what they were. The same call made next, with no entry added by anyone
\* else, misses again and invokes the function again.
C20_FuncErrorLeavesCache ==
    [][/\ (EndsMissedCall /\ done'.raisedBy = "func")
            => /\ done'.raised = "FuncError"
               /\ done'.ret = None
               /\ done'.invoked = 1
               /\ done'.adds = 0
               /\ mem' = mem
               /\ db' = db
               /\ last' = last
               /\ everAdded' = everAdded
       /\ AfterFailedCall'
            => /\ done'.gets = 1
               /\ ~done'.hit
               /\ done'.invoked = 1
    ]_vars

\* the function raised in a call that had missed, and the same call made
\* next missed again, invoked the function a second time and added its output
C20_Witness ==
    /\ AfterFailedCall
    /\ done.args # <<>>
    /\ ~done.hit
    /\ done.adds = 1
    /\ ninvoked = 2
    /\ done.ret = FuncOutput(2)
    /\ mem[done.add.bucket][done.add.identifier].data
           = _serialize_data(FuncOutput(2))

(***************************************************************************)
(* SpecLibrary: calls of update_library, the exports they trigger, and the *)
(* clock.                                                                  *)
(***************************************************************************)
MaxLibSteps == 10

\* the clock of the library update starts a day after time 0, half a minute
\* into a minute
InitLibraryClock ==
    /\ profile = "P1"
    /\ PY_IS_VER2 = FALSE
    /\ CACHE_TTL = Hour
    /\ now = 24 * Hour + 30
    /\ mem = [b \in BUCKET_NAMES |-> <<>>]
    /\ db = [b \in PersistentNames |-> <<>>]
    /\ boots = 0
    /\ last = NoCall
    /\ expect = <<>>
    /\ everAdded = {}
    /\ steps = 0
    /\ InitLibrary
    /\ cfg = Options(CACHE_COMMON, None, None, 0, None)
    /\ InitWrap
    /\ input = [fixed_identifier |-> None]
    /\ result = Pending

NextLibrary ==
    \/ Budget(MaxLibSteps) /\ update_library
    \/ Budget(MaxLibSteps) /\ ExportStarts
    \/ Budget(MaxLibSteps) /\ Tick

SpecLibrary == InitLibraryClock /\ [][NextLibrary]_vars

(***************************************************************************)
(* The claim about the library update, under SpecLibrary.                  *)
(***************************************************************************)
\* the setting records a start time; the start it records is 6 hours old
Recorded(setting) == setting.text = "time"
Stale(setting, at) == setting.minute * 60 + 6 * Hour <= at

\* C21: whatever the 'update_running' setting holds (nothing, a start time,
\* or the 'false' the cancelling of a stale run writes), update_library
\* raises nothing and triggers the export exactly when the setting records
\* no start or a start at least 6 hours old; with a start less than 6 hours
\* old it triggers nothing and leaves the setting as it is; a call that finds
\* the setting left by a cancelled stale run triggers the export.
C21_UpdateGate ==
    library.last.called
        => LET l == library.last
           IN  /\ l.raised = ""
               /\ l.triggered
                     <=> (~Recorded(l.before) \/ Stale(l.before, l.at))
               /\ (Recorded(l.before) /\ ~Stale(l.before, l.at))
                     => /\ ~l.triggered
                        /\ l.after = l.before
               /\ l.before = FalseText => l.triggered

====
